---- MODULE Spec2Model ----
(***************************************************************************)
(* A model of the Invertible Bloom Lookup Table of bissias/go-IBLT-sz      *)
(* (src/types.go): buckets, tables, the peeling decoder, the Diff          *)
(* collector and the wire format.                                          *)
(*                                                                         *)
(* Byte slices are sequences of numbers in 0..255.  A bucket's hashSum is  *)
(* a reference into `heap`, because Bucket.copy hands the slice itself to  *)
(* the clone (types.go:89) and every later xor writes through it; dataSum  *)
(* is copied by value (types.go:88) and is kept inside the bucket.         *)
(* Cell indices are 0-based as in the source.                              *)
(***************************************************************************)
EXTENDS Integers, Sequences, FiniteSets, TLC

VARIABLES tables, heap, dec, wire, last, net, ops

vars == <<tables, heap, dec, wire, last, net, ops>>

-----------------------------------------------------------------------------
(* Inputs and bounds of the model                                          *)

\* Number of API calls (Insert, Delete, Copy, Subtract, Serialize,
\* Deserialize, Decode) a run makes.
MaxOps == 3

\* The two table variables of the driver (alphaTable / betaTable, or
\* table / cpy, in the tests).
Slots == {1, 2}

\* The shape every table of the model is built with: NewTable(5, 1, 1, 2).
DefaultShape == [BktNum |-> 5, DataLen |-> 1, HashLen |-> 1, HashNum |-> 2]

\* Elements handed to Insert and Delete.  28, 43 and 130 share cell 0 and the
\* first byte of sipHash(28) (+) sipHash(43) (+) sipHash(130) equals that of
\* sipHash(181), 181 = 28 (+) 43 (+) 130: a one-byte hashSum cannot tell the
\* three of them from 181.  55 = 28 (+) 43 closes a cycle with 43 and 130.
Elems == {<<28>>, <<43>>, <<130>>, <<55>>}

\* Elements whose length is not DataLen.
BadElems == {<< >>, <<28, 43>>}

\* Hash keys.
key0 == 465
key1 == 629

-----------------------------------------------------------------------------
(* Hash service                                                            *)

\* siphash.Hash(k0, k1, d) of github.com/dchest/siphash (SipHash-2-4), as its
\* 8 big-endian bytes, for the keys and the inputs the model uses: every XOR
\* of elements of Elems, under key1 (the digest) and key1+1 .. key1+8 (the
\* index seeds).
SipTable ==
    <<465, 629, <<0>>>> :> <<197, 222, 161, 10, 22, 229, 160, 101>>
    @@ <<465, 629, <<28>>>> :> <<206, 7, 31, 236, 162, 49, 220, 106>>
    @@ <<465, 629, <<43>>>> :> <<216, 164, 218, 134, 96, 146, 93, 17>>
    @@ <<465, 629, <<55>>>> :> <<94, 52, 138, 53, 245, 39, 116, 208>>
    @@ <<465, 629, <<130>>>> :> <<26, 211, 213, 84, 106, 10, 249, 91>>
    @@ <<465, 629, <<158>>>> :> <<180, 125, 107, 183, 180, 109, 69, 157>>
    @@ <<465, 629, <<169>>>> :> <<50, 21, 60, 195, 43, 240, 255, 64>>
    @@ <<465, 629, <<181>>>> :> <<12, 182, 192, 138, 126, 101, 128, 99>>
    @@ <<465, 630, <<0>>>> :> <<30, 2, 114, 131, 94, 87, 247, 44>>
    @@ <<465, 630, <<28>>>> :> <<43, 43, 95, 10, 133, 240, 117, 234>>
    @@ <<465, 630, <<43>>>> :> <<54, 72, 174, 210, 203, 201, 5, 196>>
    @@ <<465, 630, <<55>>>> :> <<117, 214, 164, 74, 233, 127, 24, 49>>
    @@ <<465, 630, <<130>>>> :> <<172, 92, 58, 150, 182, 17, 160, 49>>
    @@ <<465, 630, <<158>>>> :> <<89, 171, 142, 193, 107, 196, 247, 155>>
    @@ <<465, 630, <<169>>>> :> <<9, 98, 3, 75, 59, 254, 24, 133>>
    @@ <<465, 630, <<181>>>> :> <<72, 165, 90, 189, 1, 65, 131, 133>>
    @@ <<465, 631, <<0>>>> :> <<51, 116, 213, 52, 142, 134, 237, 126>>
    @@ <<465, 631, <<28>>>> :> <<213, 61, 199, 100, 184, 177, 146, 19>>
    @@ <<465, 631, <<43>>>> :> <<65, 19, 97, 104, 231, 210, 7, 209>>
    @@ <<465, 631, <<55>>>> :> <<112, 191, 189, 195, 56, 245, 168, 167>>
    @@ <<465, 631, <<130>>>> :> <<9, 204, 91, 157, 234, 3, 130, 157>>
    @@ <<465, 631, <<158>>>> :> <<195, 214, 169, 18, 8, 107, 209, 126>>
    @@ <<465, 631, <<169>>>> :> <<15, 238, 117, 166, 124, 41, 16, 44>>
    @@ <<465, 631, <<181>>>> :> <<190, 23, 69, 249, 106, 39, 91, 43>>
    @@ <<465, 632, <<0>>>> :> <<50, 168, 134, 227, 174, 127, 112, 172>>
    @@ <<465, 632, <<28>>>> :> <<231, 184, 55, 184, 234, 48, 150, 82>>
    @@ <<465, 632, <<43>>>> :> <<162, 187, 232, 102, 84, 149, 254, 213>>
    @@ <<465, 632, <<55>>>> :> <<57, 80, 130, 168, 49, 24, 178, 116>>
    @@ <<465, 632, <<130>>>> :> <<178, 154, 250, 36, 57, 1, 153, 44>>
    @@ <<465, 632, <<158>>>> :> <<22, 89, 0, 38, 142, 138, 129, 226>>
    @@ <<465, 632, <<169>>>> :> <<194, 18, 155, 154, 84, 25, 184, 138>>
    @@ <<465, 632, <<181>>>> :> <<217, 65, 159, 227, 85, 213, 152, 155>>
    @@ <<465, 633, <<0>>>> :> <<242, 147, 244, 175, 239, 149, 214, 216>>
    @@ <<465, 633, <<28>>>> :> <<85, 152, 195, 52, 255, 162, 175, 87>>
    @@ <<465, 633, <<43>>>> :> <<219, 114, 177, 216, 247, 109, 100, 20>>
    @@ <<465, 633, <<55>>>> :> <<26, 30, 227, 187, 32, 8, 105, 89>>
    @@ <<465, 633, <<130>>>> :> <<124, 159, 183, 227, 129, 163, 75, 11>>
    @@ <<465, 633, <<158>>>> :> <<10, 64, 84, 238, 90, 176, 182, 15>>
    @@ <<465, 633, <<169>>>> :> <<133, 110, 26, 38, 81, 161, 121, 168>>
    @@ <<465, 633, <<181>>>> :> <<2, 122, 83, 75, 14, 215, 182, 222>>
    @@ <<465, 634, <<0>>>> :> <<17, 56, 93, 7, 81, 20, 162, 230>>
    @@ <<465, 634, <<28>>>> :> <<104, 30, 54, 42, 18, 192, 23, 70>>
    @@ <<465, 634, <<43>>>> :> <<193, 94, 23, 239, 11, 137, 227, 97>>
    @@ <<465, 634, <<55>>>> :> <<28, 158, 142, 117, 21, 18, 246, 59>>
    @@ <<465, 634, <<130>>>> :> <<218, 11, 44, 231, 248, 174, 169, 239>>
    @@ <<465, 634, <<158>>>> :> <<75, 92, 1, 24, 178, 241, 94, 212>>
    @@ <<465, 634, <<169>>>> :> <<142, 152, 137, 154, 232, 59, 231, 164>>
    @@ <<465, 634, <<181>>>> :> <<192, 17, 135, 36, 56, 144, 250, 165>>
    @@ <<465, 635, <<0>>>> :> <<201, 14, 9, 223, 22, 83, 63, 106>>
    @@ <<465, 635, <<28>>>> :> <<19, 106, 223, 5, 33, 232, 73, 123>>
    @@ <<465, 635, <<43>>>> :> <<52, 167, 67, 60, 207, 101, 4, 70>>
    @@ <<465, 635, <<55>>>> :> <<132, 69, 40, 68, 109, 144, 221, 16>>
    @@ <<465, 635, <<130>>>> :> <<216, 8, 138, 232, 85, 17, 81, 94>>
    @@ <<465, 635, <<158>>>> :> <<185, 158, 128, 5, 20, 165, 125, 239>>
    @@ <<465, 635, <<169>>>> :> <<110, 6, 90, 140, 172, 186, 244, 21>>
    @@ <<465, 635, <<181>>>> :> <<127, 105, 213, 242, 113, 77, 49, 244>>
    @@ <<465, 636, <<0>>>> :> <<0, 76, 155, 224, 122, 90, 130, 162>>
    @@ <<465, 636, <<28>>>> :> <<159, 197, 112, 154, 227, 38, 196, 124>>
    @@ <<465, 636, <<43>>>> :> <<38, 53, 216, 179, 18, 151, 221, 232>>
    @@ <<465, 636, <<55>>>> :> <<65, 237, 172, 38, 207, 194, 51, 129>>
    @@ <<465, 636, <<130>>>> :> <<10, 135, 34, 103, 51, 177, 179, 227>>
    @@ <<465, 636, <<158>>>> :> <<2, 236, 163, 69, 135, 143, 66, 24>>
    @@ <<465, 636, <<169>>>> :> <<202, 78, 25, 233, 201, 133, 197, 233>>
    @@ <<465, 636, <<181>>>> :> <<194, 98, 47, 36, 130, 71, 21, 40>>
    @@ <<465, 637, <<0>>>> :> <<195, 56, 191, 58, 202, 59, 91, 93>>
    @@ <<465, 637, <<28>>>> :> <<129, 232, 126, 162, 111, 121, 199, 34>>
    @@ <<465, 637, <<43>>>> :> <<205, 52, 144, 38, 46, 146, 16, 68>>
    @@ <<465, 637, <<55>>>> :> <<8, 47, 53, 16, 1, 225, 229, 253>>
    @@ <<465, 637, <<130>>>> :> <<82, 133, 166, 171, 207, 152, 100, 77>>
    @@ <<465, 637, <<158>>>> :> <<86, 25, 15, 18, 222, 44, 203, 69>>
    @@ <<465, 637, <<169>>>> :> <<14, 39, 37, 243, 123, 7, 174, 149>>
    @@ <<465, 637, <<181>>>> :> <<86, 167, 65, 30, 76, 167, 251, 58>>

siphashHash(k0, k1, d) == SipTable[<<k0, k1, d>>]

\* sipHash: the digest, big-endian.
sipHash(b) == siphashHash(key0, key1, b)

RECURSIVE XorByte(_, _)
\* v ^ w on bytes.
XorByte(v, w) ==
    IF v = 0 THEN w
    ELSE IF w = 0 THEN v
    ELSE 2 * XorByte(v \div 2, w \div 2) + ((v + w) % 2)

\* xor(dst, src): dst[i] ^= src[i] for every i of dst (len(dst) <= len(src)).
xor(dst, src) == [i \in 1..Len(dst) |-> XorByte(dst[i], src[i])]

\* empty(b): every byte is zero.
empty(b) == \A i \in 1..Len(b) : b[i] = 0

\* equalPrefix(a, b): a is a prefix of b (len(a) <= len(b)).
equalPrefix(a, b) == \A i \in 1..Len(a) : a[i] = b[i]

\* make([]byte, n)
Zeros(n) == [i \in 1..n |-> 0]

RECURSIVE ModBytes(_, _, _)
\* uint(h) % n for the 64-bit h given by its big-endian bytes, acc being the
\* remainder of the bytes already read.
ModBytes(h, n, acc) ==
    IF h = << >> THEN acc
    ELSE ModBytes(Tail(h), n, (acc * 256 + Head(h)) % n)

-----------------------------------------------------------------------------
(* Memory: the backing arrays of the hashSum slices                        *)

\* An address no live bucket refers to.
Free == <<-1>>

Addrs == 1..(Cardinality(Slots) * DefaultShape.BktNum)

\* make([]byte, hashLen): an address not in use; `home` when that is one, so
\* that the address of a cell's array does not depend on the order in which
\* the cells of the tables were made.
Alloc(h, home) ==
    IF h[home] = Free THEN home
    ELSE CHOOSE a \in Addrs : h[a] = Free /\ \A b \in Addrs : b < a => h[b] # Free

\* Where the array of cell idx of the table in slot s is put when it is free.
Home(s, idx) == (s - 1) * DefaultShape.BktNum + (idx % DefaultShape.BktNum) + 1

\* Arrays no bucket of any table refers to any more are collected.
Collect(tabs, h) ==
    [a \in Addrs |->
        IF \E s \in DOMAIN tabs : \E i \in DOMAIN tabs[s].buckets :
               tabs[s].buckets[i].present /\ tabs[s].buckets[i].hashSum = a
        THEN h[a] ELSE Free]

-----------------------------------------------------------------------------
(* Bucket                                                                  *)

\* A nil *Bucket.
NilBucket == [present |-> FALSE, dataSum |-> << >>, hashSum |-> 0, count |-> 0]

\* NewBucket(dataLen, hashLen): the bucket, and the heap with its hashSum
\* array (put at `home` when that address is free).
NewBucket(h, home, dataLen, hashLen) ==
    LET a == Alloc(h, home)
    IN  [bkt |-> [present |-> TRUE, dataSum |-> Zeros(dataLen), hashSum |-> a, count |-> 0],
         heap |-> [h EXCEPT ![a] = Zeros(hashLen)]]

\* b.subtract(a) that adds the counts.
BucketSubtractAdd(b, a, h) ==
    [bkt |-> [b EXCEPT !.dataSum = xor(b.dataSum, a.dataSum),
                       !.count = b.count + a.count],
     heap |-> [h EXCEPT ![b.hashSum] = xor(h[b.hashSum], h[a.hashSum])]]

\* b.subtract(a): b.xor(a), then b.count -= a.count.  The xor of the hashSums
\* reads a's array while it writes b's.
BucketSubtract(b, a, h) ==
    [bkt |-> [b EXCEPT !.dataSum = xor(b.dataSum, a.dataSum),
                       !.count = b.count - a.count],
     heap |-> [h EXCEPT ![b.hashSum] = xor(h[b.hashSum], h[a.hashSum])]]

\* b.operate that counts up whatever the sign.
BucketOperateNoSign(b, h, d, sign) ==
    [bkt |-> [b EXCEPT !.dataSum = xor(b.dataSum, d), !.count = b.count + 1],
     heap |-> [h EXCEPT ![b.hashSum] = xor(h[b.hashSum], sipHash(d))]]

\* b.operate that leaves hashSum alone when it counts down.
BucketOperateKeepHash(b, h, d, sign) ==
    [bkt |-> [b EXCEPT !.dataSum = xor(b.dataSum, d),
                       !.count = IF sign THEN b.count + 1 ELSE b.count - 1],
     heap |-> IF sign THEN [h EXCEPT ![b.hashSum] = xor(h[b.hashSum], sipHash(d))]
              ELSE h]

\* b.operate(d, sign)
BucketOperate(b, h, d, sign) ==
    [bkt |-> [b EXCEPT !.dataSum = xor(b.dataSum, d),
                       !.count = IF sign THEN b.count + 1 ELSE b.count - 1],
     heap |-> [h EXCEPT ![b.hashSum] = xor(h[b.hashSum], sipHash(d))]]

\* b.copy(): dataSum is copied, hashSum is the same slice, count is copied.
BucketCopy(b) ==
    [present |-> TRUE, dataSum |-> b.dataSum, hashSum |-> b.hashSum, count |-> b.count]

\* b.pure()
BucketPure(b, h) ==
    /\ b.count = 1 \/ b.count = -1
    /\ equalPrefix(h[b.hashSum], sipHash(b.dataSum))

\* b.empty()
BucketEmpty(b, h) == b.count = 0 /\ empty(h[b.hashSum]) /\ empty(b.dataSum)

-----------------------------------------------------------------------------
(* byteSet and Diff                                                        *)

\* s.test(b).  The cuckoo filter in front of the slice is taken to answer
\* "possibly in set" for every element that is in the slice.
ByteSetTest(s, b) == \E i \in 1..Len(s) : s[i] = b

\* s.insert(b)
ByteSetInsert(s, b) == IF ByteSetTest(s, b) THEN s ELSE Append(s, b)

\* s.delete(b): drops the first occurrence of b (position 0 when there is
\* none).  On an empty set s.Set[idx+1:] is out of range and the call panics.
ByteSetDelete(s, b) ==
    LET hit == {i \in 1..Len(s) : s[i] = b}
        idx == IF hit = {} THEN 1 ELSE CHOOSE i \in hit : \A j \in hit : i <= j
    IN  IF Len(s) = 0 THEN [panic |-> TRUE, set |-> s]
        ELSE [panic |-> FALSE,
              set |-> SubSeq(s, 1, idx - 1) \o SubSeq(s, idx + 1, Len(s))]

\* diff.encode that does not look into the opposite set.
DiffEncodeNoCheck(alpha, beta, dataSum, count) ==
    [err |-> "nil",
     alpha |-> IF count = 1 THEN ByteSetInsert(alpha, dataSum) ELSE alpha,
     beta |-> IF count = -1 THEN ByteSetInsert(beta, dataSum) ELSE beta]

\* diff.encode with the two sets exchanged: a count of 1 goes to beta and a
\* count of -1 to alpha.
DiffEncodeSwapped(alpha, beta, dataSum, count) ==
    IF count = -1 /\ ByteSetTest(beta, dataSum)
    THEN [err |-> "repetitive bytes found in beta", alpha |-> alpha,
          beta |-> ByteSetDelete(beta, dataSum).set]
    ELSE IF count = 1 /\ ByteSetTest(alpha, dataSum)
    THEN [err |-> "repetitive bytes found in alpha",
          alpha |-> ByteSetDelete(alpha, dataSum).set, beta |-> beta]
    ELSE [err |-> "nil",
          alpha |-> IF count = -1 THEN ByteSetInsert(alpha, dataSum) ELSE alpha,
          beta |-> IF count = 1 THEN ByteSetInsert(beta, dataSum) ELSE beta]

\* d.encode(b), b given by its dataSum and count as read at the call.  delete
\* is called on a set that test found b in, which is not empty.
DiffEncode(alpha, beta, dataSum, count) ==
    IF count = 1 /\ ByteSetTest(beta, dataSum)
    THEN [err |-> "repetitive bytes found in beta", alpha |-> alpha,
          beta |-> ByteSetDelete(beta, dataSum).set]
    ELSE IF count = -1 /\ ByteSetTest(alpha, dataSum)
    THEN [err |-> "repetitive bytes found in alpha",
          alpha |-> ByteSetDelete(alpha, dataSum).set, beta |-> beta]
    ELSE [err |-> "nil",
          alpha |-> IF count = 1 THEN ByteSetInsert(alpha, dataSum) ELSE alpha,
          beta |-> IF count = -1 THEN ByteSetInsert(beta, dataSum) ELSE beta]

-----------------------------------------------------------------------------
(* Table                                                                   *)

\* NewTable(buckets, dataLen, hashLen, hashNum).  `at` is the driver variable
\* that holds the table; it only says where the arrays of its cells are put.
NewTable(bktNum, dataLen, hashLen, hashNum) ==
    [at |-> 1, BktNum |-> bktNum, DataLen |-> dataLen, HashLen |-> hashLen,
     HashNum |-> hashNum,
     buckets |-> [i \in 0..(bktNum - 1) |-> NilBucket],
     bitsSet |-> {}]

RECURSIVE IndexLoopNoRetry(_, _, _, _)
\* The loop of t.index that counts the hashes made, not the bits set.
IndexLoopNoRetry(t, d, tries, bits) ==
    IF tries > t.HashNum THEN bits
    ELSE LET hh == siphashHash(key0, key1 + tries, d)
             idx == ModBytes(hh, t.BktNum, 0)
         IN  IndexLoopNoRetry(t, d, tries + 1, bits \cup {idx})

RECURSIVE IndexLoop(_, _, _, _)
\* The loop of t.index: i counts the bits set so far.
IndexLoop(t, d, tries, bits) ==
    IF Cardinality(bits) >= t.HashNum THEN bits
    ELSE LET hh == siphashHash(key0, key1 + tries, d)
             idx == ModBytes(hh, t.BktNum, 0)
         IN  IndexLoop(t, d, tries + 1, bits \cup {idx})

\* t.index(d): the error, and t.bitsSet afterwards.
TableIndex(t, d) ==
    IF Len(d) # t.DataLen
    THEN [err |-> "insert byte length mismatches base data length", bits |-> t.bitsSet]
    ELSE [err |-> "nil", bits |-> IndexLoop(t, d, 1, {})]

\* t.operateBucket(idx, d, sign)
OperateBucket(t, h, idx, d, sign) ==
    LET nb == IF t.buckets[idx].present
              THEN [bkt |-> t.buckets[idx], heap |-> h]
              ELSE NewBucket(h, Home(t.at, idx), t.DataLen, t.HashLen)
        r == BucketOperate(nb.bkt, nb.heap, d, sign)
    IN  [tbl |-> [t EXCEPT !.buckets[idx] = r.bkt], heap |-> r.heap]

RECURSIVE OperateLoop(_, _, _, _, _)
\* The loop of t.operate over the set bits, from bit i upwards.
OperateLoop(t, h, i, d, sign) ==
    IF i >= t.BktNum THEN [tbl |-> t, heap |-> h]
    ELSE IF i \in t.bitsSet
    THEN LET r == OperateBucket(t, h, i, d, sign)
         IN  OperateLoop(r.tbl, r.heap, i + 1, d, sign)
    ELSE OperateLoop(t, h, i + 1, d, sign)

\* t.operate that drops the error of t.index and returns nil.
TableOperateSwallow(t, h, d, sign) ==
    LET ix == TableIndex(t, d)
    IN  IF ix.err # "nil" THEN [err |-> "nil", tbl |-> t, heap |-> h]
        ELSE LET r == OperateLoop([t EXCEPT !.bitsSet = ix.bits], h, 0, d, sign)
             IN  [err |-> "nil", tbl |-> r.tbl, heap |-> r.heap]

\* t.operate(d, sign)
TableOperate(t, h, d, sign) ==
    LET ix == TableIndex(t, d)
    IN  IF ix.err # "nil" THEN [err |-> ix.err, tbl |-> t, heap |-> h]
        ELSE LET r == OperateLoop([t EXCEPT !.bitsSet = ix.bits], h, 0, d, sign)
             IN  [err |-> "nil", tbl |-> r.tbl, heap |-> r.heap]

\* t.Copy(): NewTable(t.BktNum, ...) has BktNum cells, and every cell of
\* t.buckets that is not nil is copied to the same index.  An index beyond
\* the new table's cells is out of range and the call panics.
TableCopy(t) ==
    LET rtn == NewTable(t.BktNum, t.DataLen, t.HashLen, t.HashNum)
    IN  IF \E i \in DOMAIN t.buckets : t.buckets[i].present /\ i \notin DOMAIN rtn.buckets
        THEN [panic |-> TRUE, tbl |-> rtn]
        ELSE [panic |-> FALSE,
              tbl |-> [rtn EXCEPT !.buckets =
                          [i \in DOMAIN rtn.buckets |->
                              IF i \in DOMAIN t.buckets /\ t.buckets[i].present
                              THEN BucketCopy(t.buckets[i])
                              ELSE NilBucket]]]

\* t.check(a) without the comparison of HashNum.
TableCheckNoHashNum(t, a) ==
    IF t.BktNum # a.BktNum THEN "subtract table mismatches bucket number"
    ELSE IF t.DataLen # a.DataLen THEN "subtract table mismatches data length"
    ELSE IF t.HashLen # a.HashLen THEN "subtract table mismatches hash length"
    ELSE IF Cardinality(DOMAIN t.buckets) # Cardinality(DOMAIN a.buckets)
    THEN "illegally appended buckets"
    ELSE "nil"

\* t.check(a)
TableCheck(t, a) ==
    IF t.BktNum # a.BktNum THEN "subtract table mismatches bucket number"
    ELSE IF t.DataLen # a.DataLen THEN "subtract table mismatches data length"
    ELSE IF t.HashLen # a.HashLen THEN "subtract table mismatches hash length"
    ELSE IF t.HashNum # a.HashNum THEN "subtract table mismatches number of hash functions"
    ELSE IF Cardinality(DOMAIN t.buckets) # Cardinality(DOMAIN a.buckets)
    THEN "illegally appended buckets"
    ELSE "nil"

RECURSIVE SubtractLoopNoNegate(_, _, _, _)
\* The loop of t.Subtract(a) that copies the operand's cell and keeps its
\* count.
SubtractLoopNoNegate(t, a, h, i) ==
    IF i >= Cardinality(DOMAIN t.buckets) THEN [tbl |-> t, heap |-> h]
    ELSE IF t.buckets[i].present /\ a.buckets[i].present
    THEN LET r == BucketSubtract(t.buckets[i], a.buckets[i], h)
         IN  SubtractLoopNoNegate([t EXCEPT !.buckets[i] = r.bkt], a, r.heap, i + 1)
    ELSE IF ~t.buckets[i].present /\ a.buckets[i].present
    THEN SubtractLoopNoNegate([t EXCEPT !.buckets[i] = BucketCopy(a.buckets[i])],
                              a, h, i + 1)
    ELSE SubtractLoopNoNegate(t, a, h, i + 1)

RECURSIVE SubtractLoop(_, _, _, _)
\* The loop of t.Subtract(a), from cell i upwards.
SubtractLoop(t, a, h, i) ==
    IF i >= Cardinality(DOMAIN t.buckets) THEN [tbl |-> t, heap |-> h]
    ELSE IF t.buckets[i].present /\ a.buckets[i].present
    THEN LET r == BucketSubtract(t.buckets[i], a.buckets[i], h)
         IN  SubtractLoop([t EXCEPT !.buckets[i] = r.bkt], a, r.heap, i + 1)
    ELSE IF ~t.buckets[i].present /\ a.buckets[i].present
    THEN LET c == BucketCopy(a.buckets[i])
         IN  SubtractLoop([t EXCEPT !.buckets[i] = [c EXCEPT !.count = -c.count]],
                          a, h, i + 1)
    ELSE SubtractLoop(t, a, h, i + 1)

\* t.Subtract(a)
TableSubtract(t, a, h) ==
    LET e == TableCheck(t, a)
    IN  IF e # "nil" THEN [err |-> e, tbl |-> t, heap |-> h]
        ELSE LET r == SubtractLoop(t, a, h, 0)
             IN  [err |-> "nil", tbl |-> r.tbl, heap |-> r.heap]

\* t.empty()
TableEmpty(t, h) ==
    \A i \in DOMAIN t.buckets : t.buckets[i].present => BucketEmpty(t.buckets[i], h)

RECURSIVE EnqueueLoopNoFalsePure(_, _, _, _, _)
\* The loop of t.enqueuePure without the test for a false pure.
EnqueueLoopNoFalsePure(t, h, i, pureMask, pure) ==
    IF i >= Cardinality(DOMAIN t.buckets) THEN [err |-> "nil", tbl |-> t, pure |-> pure]
    ELSE IF t.buckets[i].present /\ i \notin pureMask /\ BucketPure(t.buckets[i], h)
    THEN LET ix == TableIndex(t, t.buckets[i].dataSum)
             t1 == [t EXCEPT !.bitsSet = ix.bits]
         IN  IF ix.err # "nil" THEN [err |-> ix.err, tbl |-> t, pure |-> pure]
             ELSE EnqueueLoopNoFalsePure(t1, h, i + 1, pureMask \cup ix.bits,
                                         Append(pure, i))
    ELSE EnqueueLoopNoFalsePure(t, h, i + 1, pureMask, pure)

RECURSIVE EnqueueLoopNoMask(_, _, _, _, _)
\* The loop of t.enqueuePure that never fills pureMask: every pure cell of
\* an element is enqueued.
EnqueueLoopNoMask(t, h, i, pureMask, pure) ==
    IF i >= Cardinality(DOMAIN t.buckets) THEN [err |-> "nil", tbl |-> t, pure |-> pure]
    ELSE IF t.buckets[i].present /\ i \notin pureMask /\ BucketPure(t.buckets[i], h)
    THEN LET ix == TableIndex(t, t.buckets[i].dataSum)
             t1 == [t EXCEPT !.bitsSet = ix.bits]
         IN  IF ix.err # "nil" THEN [err |-> ix.err, tbl |-> t, pure |-> pure]
             ELSE IF i \notin ix.bits
             THEN EnqueueLoopNoMask(t1, h, i + 1, pureMask, pure)
             ELSE EnqueueLoopNoMask(t1, h, i + 1, pureMask, Append(pure, i))
    ELSE EnqueueLoopNoMask(t, h, i + 1, pureMask, pure)

RECURSIVE EnqueueLoop(_, _, _, _, _)
\* The loop of t.enqueuePure, from cell i upwards: the table (its bitsSet is
\* the scratch of t.index), the queue of cells and the error.
EnqueueLoop(t, h, i, pureMask, pure) ==
    IF i >= Cardinality(DOMAIN t.buckets) THEN [err |-> "nil", tbl |-> t, pure |-> pure]
    ELSE IF t.buckets[i].present /\ i \notin pureMask /\ BucketPure(t.buckets[i], h)
    THEN LET ix == TableIndex(t, t.buckets[i].dataSum)
             t1 == [t EXCEPT !.bitsSet = ix.bits]
         IN  IF ix.err # "nil" THEN [err |-> ix.err, tbl |-> t, pure |-> pure]
             ELSE IF i \notin ix.bits
             THEN EnqueueLoop(t1, h, i + 1, pureMask, pure)
             ELSE EnqueueLoop(t1, h, i + 1, pureMask \cup ix.bits, Append(pure, i))
    ELSE EnqueueLoop(t, h, i + 1, pureMask, pure)

\* t.enqueuePure(pure).  The queue holds *Bucket: a queued cell is named by
\* its index and read when it is dequeued.
EnqueuePure(t, h, pure) == EnqueueLoop(t, h, 0, {}, pure)

-----------------------------------------------------------------------------
(* Decode, one step of its loops at a time                                 *)

\* A run of Decode peels at most this often in the model.
MaxPeels == 8

\* Every byte string a dataSum can hold: the XORs of elements of Elems.
Universe == {k[3] : k \in DOMAIN SipTable}

ZeroNet == [e \in Universe |-> 0]

\* Decode's locals: where it stands (pc), the table it runs on, the queue
\* `pure` (cell indices), the Diff (Alpha.Set, Beta.Set), the error it
\* returned (err) and the one diff.encode returned last (encodeErr).  peels
\* counts the iterations of the inner loop; src is the content of the table
\* when Decode was called and `after` the call made before it.
IdleDec ==
    [pc |-> "idle", tbl |-> 0, pure |-> << >>, alpha |-> << >>, beta |-> << >>,
     err |-> "nil", encodeErr |-> "nil", peels |-> 0, src |-> ZeroNet, after |-> "none"]

Returned(d, e) == [d EXCEPT !.pc = "done", !.err = e]

\* Decode up to its first inner loop: the empty check, the first scan and
\* the "no pure buckets" check.
DecodeStart(t, h, d) ==
    IF TableEmpty(t, h) THEN [tbl |-> t, heap |-> h, dec |-> Returned(d, "nil")]
    ELSE LET r == EnqueuePure(t, h, << >>)
         IN  IF r.err # "nil"
             THEN [tbl |-> r.tbl, heap |-> h, dec |-> Returned(d, r.err)]
             ELSE IF Len(r.pure) = 0
             THEN [tbl |-> r.tbl, heap |-> h,
                   dec |-> Returned(d, "no pure buckets in table")]
             ELSE [tbl |-> r.tbl, heap |-> h,
                   dec |-> [d EXCEPT !.pc = "peel", !.pure = r.pure]]

\* One iteration of the inner loop that records the bucket and leaves out
\* t.operate.
DecodePeelStepNoOperate(t, h, d) ==
    LET bkt == t.buckets[Head(d.pure)]
        e == DiffEncode(d.alpha, d.beta, bkt.dataSum, bkt.count)
        d1 == [d EXCEPT !.pure = Tail(d.pure), !.alpha = e.alpha, !.beta = e.beta,
                        !.encodeErr = e.err, !.peels = d.peels + 1]
    IN  IF e.err # "nil" THEN [tbl |-> t, heap |-> h, dec |-> Returned(d1, "nil")]
        ELSE [tbl |-> t, heap |-> h,
              dec |-> [d1 EXCEPT !.pc = IF Len(d1.pure) > 0 THEN "peel" ELSE "rescan"]]

\* One iteration of the inner loop whose t.operate has the sign of the
\* bucket's count: it inserts what it should delete.
DecodePeelStepSameSign(t, h, d) ==
    LET bkt == t.buckets[Head(d.pure)]
        e == DiffEncode(d.alpha, d.beta, bkt.dataSum, bkt.count)
        d1 == [d EXCEPT !.pure = Tail(d.pure), !.alpha = e.alpha, !.beta = e.beta,
                        !.encodeErr = e.err, !.peels = d.peels + 1]
    IN  IF e.err # "nil" THEN [tbl |-> t, heap |-> h, dec |-> Returned(d1, "nil")]
        ELSE LET o == TableOperate(t, h, bkt.dataSum, bkt.count > 0)
             IN  IF o.err # "nil"
                 THEN [tbl |-> o.tbl, heap |-> o.heap, dec |-> Returned(d1, o.err)]
                 ELSE [tbl |-> o.tbl, heap |-> o.heap,
                       dec |-> [d1 EXCEPT !.pc = IF Len(d1.pure) > 0 THEN "peel"
                                                 ELSE "rescan"]]

\* One iteration of the inner loop: dequeue, diff.encode, t.operate.  An error
\* of diff.encode ends Decode with (diff, nil).
DecodePeelStep(t, h, d) ==
    LET bkt == t.buckets[Head(d.pure)]
        e == DiffEncode(d.alpha, d.beta, bkt.dataSum, bkt.count)
        d1 == [d EXCEPT !.pure = Tail(d.pure), !.alpha = e.alpha, !.beta = e.beta,
                        !.encodeErr = e.err, !.peels = d.peels + 1]
    IN  IF e.err # "nil" THEN [tbl |-> t, heap |-> h, dec |-> Returned(d1, "nil")]
        ELSE LET o == TableOperate(t, h, bkt.dataSum, bkt.count < 0)
             IN  IF o.err # "nil"
                 THEN [tbl |-> o.tbl, heap |-> o.heap, dec |-> Returned(d1, o.err)]
                 ELSE [tbl |-> o.tbl, heap |-> o.heap,
                       dec |-> [d1 EXCEPT !.pc = IF Len(d1.pure) > 0 THEN "peel"
                                                 ELSE "rescan"]]

\* The queue ran empty: scan again; with no pure cell left, the outer loop
\* ends and the table must be empty.
DecodeRescanStep(t, h, d) ==
    LET r == EnqueuePure(t, h, d.pure)
    IN  IF r.err # "nil" THEN [tbl |-> r.tbl, heap |-> h, dec |-> Returned(d, r.err)]
        ELSE IF Len(r.pure) > 0
        THEN [tbl |-> r.tbl, heap |-> h, dec |-> [d EXCEPT !.pc = "peel", !.pure = r.pure]]
        ELSE IF ~TableEmpty(r.tbl, h)
        THEN [tbl |-> r.tbl, heap |-> h, dec |-> Returned(d, "dirty entries remained")]
        ELSE [tbl |-> r.tbl, heap |-> h, dec |-> Returned(d, "nil")]

RECURSIVE DecodeLoop(_, _, _)
DecodeLoop(t, h, d) ==
    IF d.pc = "done" \/ d.peels >= MaxPeels THEN [tbl |-> t, heap |-> h, dec |-> d]
    ELSE LET r == IF d.pc = "peel" THEN DecodePeelStep(t, h, d)
                  ELSE DecodeRescanStep(t, h, d)
         IN  DecodeLoop(r.tbl, r.heap, r.dec)

\* t.Decode() from call to return.
TableDecode(t, h) ==
    LET s == DecodeStart(t, h, IdleDec)
    IN  DecodeLoop(s.tbl, s.heap, s.dec)

-----------------------------------------------------------------------------
(* Wire format                                                             *)

\* binary.BigEndian.PutUint16(twoBytes, uint16(v))
PutUint16(v) == LET u == v % 65536 IN <<u \div 256, u % 256>>

\* binary.BigEndian.Uint16(b)
Uint16(b) == b[1] * 256 + b[2]

\* int(uint16) instead of int(int16(uint16)): the count read as unsigned.
Int16Unsigned(u) == u

\* int(int16(u))
Int16(u) == IF u >= 32768 THEN u - 65536 ELSE u

RECURSIVE SerializeLoop(_, _, _)
\* The cell records of t.Serialize, from cell idx upwards.
SerializeLoop(t, h, idx) ==
    IF idx >= Cardinality(DOMAIN t.buckets) THEN << >>
    ELSE LET bkt == t.buckets[idx]
         IN  (IF bkt.present /\ ~BucketEmpty(bkt, h)
              THEN PutUint16(idx) \o PutUint16(bkt.count) \o bkt.dataSum \o h[bkt.hashSum]
              ELSE << >>) \o SerializeLoop(t, h, idx + 1)

\* t.Serialize()
Serialize(t, h) ==
    PutUint16(t.BktNum) \o PutUint16(t.DataLen) \o PutUint16(t.HashLen)
        \o PutUint16(t.HashNum) \o SerializeLoop(t, h, 0)

\* reader.Next(n): the next n bytes, or what is left of them.
ReaderNext(b, n) == SubSeq(b, 1, IF n < Len(b) THEN n ELSE Len(b))
ReaderSkip(b, n) == SubSeq(b, (IF n < Len(b) THEN n ELSE Len(b)) + 1, Len(b))

\* copy(dst, src) into a zeroed dst of length n
CopyInto(n, src) == [i \in 1..n |-> IF i <= Len(src) THEN src[i] ELSE 0]

RECURSIVE DeserializeLoop(_, _, _)
\* The loop of Deserialize over the cell records left in b.  Uint16 of fewer
\* than two bytes, and a cell index outside the table, panic.
DeserializeLoop(t, h, b) ==
    IF Len(ReaderNext(b, 2)) = 0 THEN [panic |-> FALSE, tbl |-> t, heap |-> h]
    ELSE IF Len(ReaderNext(b, 2)) < 2 THEN [panic |-> TRUE, tbl |-> t, heap |-> h]
    ELSE LET idx == Uint16(ReaderNext(b, 2))
             b1 == ReaderSkip(b, 2)
         IN  IF idx >= t.BktNum THEN [panic |-> TRUE, tbl |-> t, heap |-> h]
             ELSE LET nb == NewBucket(h, Home(t.at, idx), t.DataLen, t.HashLen)
                      t1 == [t EXCEPT !.buckets[idx] = nb.bkt]
                  IN  IF Len(ReaderNext(b1, 2)) < 2
                      THEN [panic |-> TRUE, tbl |-> t1, heap |-> nb.heap]
                      ELSE LET cnt == Int16(Uint16(ReaderNext(b1, 2)))
                               b2 == ReaderSkip(b1, 2)
                               ds == CopyInto(t.DataLen, ReaderNext(b2, t.DataLen))
                               b3 == ReaderSkip(b2, t.DataLen)
                               hs == CopyInto(t.HashLen, ReaderNext(b3, t.HashLen))
                               b4 == ReaderSkip(b3, t.HashLen)
                           IN  DeserializeLoop(
                                   [t1 EXCEPT !.buckets[idx].count = cnt,
                                              !.buckets[idx].dataSum = ds],
                                   [nb.heap EXCEPT ![nb.bkt.hashSum] = hs], b4)

\* Deserialize(b) into driver variable c, allocating in heap h.
Deserialize(b, h, c) ==
    IF Len(b) < 8 THEN [panic |-> TRUE, tbl |-> NewTable(0, 0, 0, 0), heap |-> h]
    ELSE DeserializeLoop(
             [NewTable(Uint16(SubSeq(b, 1, 2)), Uint16(SubSeq(b, 3, 4)),
                       Uint16(SubSeq(b, 5, 6)), Uint16(SubSeq(b, 7, 8)))
                 EXCEPT !.at = c],
             h, ReaderSkip(b, 8))

-----------------------------------------------------------------------------
(* State                                                                   *)
(*  tables : the Table each driver variable holds                          *)
(*  heap   : the hashSum arrays                                            *)
(*  dec    : the Decode call in progress, or the last one's result         *)
(*  wire   : the last output of Serialize                                  *)
(*  last   : the last API call and the error it returned                   *)
(*  net    : per table, how often each element was inserted minus deleted  *)
(*           (by the caller and by Decode's peeling); Subtract subtracts   *)
(*  ops    : API calls made                                                *)

Shape(sh, s) == [NewTable(sh.BktNum, sh.DataLen, sh.HashLen, sh.HashNum) EXCEPT !.at = s]

NoCall == [op |-> "none", tbl |-> 0, elem |-> << >>, other |-> 0, err |-> "nil"]

Init ==
    /\ tables = [s \in Slots |-> Shape(DefaultShape, s)]
    /\ heap = [a \in Addrs |-> Free]
    /\ dec = IdleDec
    /\ wire = [set |-> FALSE, bytes |-> << >>, net |-> ZeroNet]
    /\ last = NoCall
    /\ net = [s \in Slots |-> ZeroNet]
    /\ ops = 0

\* No Decode is running: the program is single-threaded.
Ready == dec.pc \in {"idle", "done"}

\* t.Insert(d) / t.Delete(d) on the table in slot s.
Operate(s, d, sign) ==
    LET r == TableOperate(tables[s], heap, d, sign)
    IN  /\ Ready
        /\ tables' = [tables EXCEPT ![s] = r.tbl]
        /\ heap' = r.heap
        /\ net' = IF r.err = "nil"
                  THEN [net EXCEPT ![s][d] = IF sign THEN @ + 1 ELSE @ - 1]
                  ELSE net
        /\ last' = [op |-> IF sign THEN "Insert" ELSE "Delete", tbl |-> s, elem |-> d,
                    other |-> 0, err |-> r.err]
        /\ dec' = IdleDec
        /\ ops' = ops + 1
        /\ UNCHANGED wire

Insert(s, d) == Operate(s, d, TRUE)

Delete(s, d) == Operate(s, d, FALSE)

\* tables[c] = tables[s].Copy(); c may be s.
Copy(s, c) ==
    LET r == TableCopy(tables[s])
        tabs == [tables EXCEPT ![c] = [r.tbl EXCEPT !.at = c]]
    IN  /\ Ready
        /\ tables' = IF r.panic THEN tables ELSE tabs
        /\ heap' = IF r.panic THEN heap ELSE Collect(tabs, heap)
        /\ net' = IF r.panic THEN net ELSE [net EXCEPT ![c] = net[s]]
        /\ last' = [op |-> "Copy", tbl |-> s, elem |-> << >>, other |-> c,
                    err |-> IF r.panic THEN "panic" ELSE "nil"]
        /\ dec' = IdleDec
        /\ ops' = ops + 1
        /\ UNCHANGED wire

\* tables[s].Subtract(tables[a]); a may be s.
Subtract(s, a) ==
    LET r == TableSubtract(tables[s], tables[a], heap)
    IN  /\ Ready
        /\ tables' = [tables EXCEPT ![s] = r.tbl]
        /\ heap' = r.heap
        /\ net' = IF r.err = "nil"
                  THEN [net EXCEPT ![s] = [e \in Universe |-> net[s][e] - net[a][e]]]
                  ELSE net
        /\ last' = [op |-> "Subtract", tbl |-> s, elem |-> << >>, other |-> a,
                    err |-> r.err]
        /\ dec' = IdleDec
        /\ ops' = ops + 1
        /\ UNCHANGED wire

\* wire, _ = tables[s].Serialize()
DoSerialize(s) ==
    /\ Ready
    /\ wire' = [set |-> TRUE, bytes |-> Serialize(tables[s], heap), net |-> net[s]]
    /\ last' = [op |-> "Serialize", tbl |-> s, elem |-> << >>, other |-> 0, err |-> "nil"]
    /\ dec' = IdleDec
    /\ ops' = ops + 1
    /\ UNCHANGED <<tables, heap, net>>

\* tables[c], _ = Deserialize(wire)
DoDeserialize(c) ==
    LET gone == [tables EXCEPT ![c] = Shape(DefaultShape, c)]
        r == Deserialize(wire.bytes, Collect(gone, heap), c)
        tabs == [tables EXCEPT ![c] = r.tbl]
    IN  /\ Ready
        /\ wire.set
        /\ ~r.panic
        /\ tables' = tabs
        /\ heap' = Collect(tabs, r.heap)
        /\ net' = [net EXCEPT ![c] = wire.net]
        /\ last' = [op |-> "Deserialize", tbl |-> c, elem |-> << >>, other |-> 0,
                    err |-> "nil"]
        /\ dec' = IdleDec
        /\ ops' = ops + 1
        /\ UNCHANGED wire

\* tables[c], err = Deserialize(b) for any bytes b.  The code has no error
\* return: it gives a table and nil, or it panics (binary.BigEndian.Uint16 of
\* a slice shorter than two bytes, a cell index outside the bucket array) and
\* the assignment never happens.
DeserializeBytes(c, b) ==
    LET gone == [tables EXCEPT ![c] = Shape(DefaultShape, c)]
        r == Deserialize(b, Collect(gone, heap), c)
        tabs == [tables EXCEPT ![c] = r.tbl]
    IN  /\ Ready
        /\ tables' = IF r.panic THEN tables ELSE tabs
        /\ heap' = IF r.panic THEN heap ELSE Collect(tabs, r.heap)
        /\ net' = IF r.panic THEN net
                  ELSE [net EXCEPT ![c] = IF b = wire.bytes THEN wire.net ELSE ZeroNet]
        /\ last' = [op |-> "Deserialize", tbl |-> c, elem |-> b, other |-> 0,
                    err |-> IF r.panic THEN "panic" ELSE "nil"]
        /\ dec' = IdleDec
        /\ ops' = ops + 1
        /\ UNCHANGED wire

\* net[s] after one iteration of Decode's inner loop that dequeued bkt:
\* t.operate(bkt.dataSum, bkt.count < 0) ran unless diff.encode failed.
Peeled(n, bkt, after) ==
    IF after.encodeErr # "nil" \/ (after.pc = "done" /\ after.err # "nil") THEN n
    ELSE [n EXCEPT ![bkt.dataSum] = IF bkt.count < 0 THEN @ + 1 ELSE @ - 1]

\* diff, err := tables[s].Decode(): the call, up to the first inner loop.
DecodeBegin(s) ==
    LET r == DecodeStart(tables[s], heap,
                         [IdleDec EXCEPT !.tbl = s, !.src = net[s], !.after = last.op])
    IN  /\ Ready
        /\ tables' = [tables EXCEPT ![s] = r.tbl]
        /\ heap' = r.heap
        /\ dec' = r.dec
        /\ last' = [op |-> "Decode", tbl |-> s, elem |-> << >>, other |-> 0, err |-> "nil"]
        /\ ops' = ops + 1
        /\ UNCHANGED <<wire, net>>

\* One iteration of Decode's inner loop.
DecodePeel ==
    /\ dec.pc = "peel"
    /\ dec.peels < MaxPeels
    /\ LET s == dec.tbl
           r == DecodePeelStep(tables[s], heap, dec)
       IN  /\ tables' = [tables EXCEPT ![s] = r.tbl]
           /\ heap' = r.heap
           /\ dec' = r.dec
           /\ net' = [net EXCEPT ![s] =
                         Peeled(@, tables[s].buckets[Head(dec.pure)], r.dec)]
    /\ UNCHANGED <<wire, last, ops>>

\* The rescan after the inner loop, and Decode's return when it finds nothing.
DecodeRescan ==
    /\ dec.pc = "rescan"
    /\ LET s == dec.tbl
           r == DecodeRescanStep(tables[s], heap, dec)
       IN  /\ tables' = [tables EXCEPT ![s] = r.tbl]
           /\ heap' = r.heap
           /\ dec' = r.dec
    /\ UNCHANGED <<wire, last, net, ops>>

-----------------------------------------------------------------------------
(* The driver: any calls, on either table, in any order                    *)

CallInsert == \E s \in Slots, d \in Elems \cup BadElems : ops < MaxOps /\ Insert(s, d)

CallDelete == \E s \in Slots, d \in Elems \cup BadElems : ops < MaxOps /\ Delete(s, d)

CallCopy == \E s, c \in Slots : ops < MaxOps /\ Copy(s, c)

CallSubtract == \E s, a \in Slots : ops < MaxOps /\ Subtract(s, a)

CallSerialize == \E s \in Slots : ops < MaxOps /\ DoSerialize(s)

CallDeserialize == \E c \in Slots : ops < MaxOps /\ DoDeserialize(c)

CallDecode == \E s \in Slots : ops < MaxOps /\ DecodeBegin(s)

Next ==
    \/ CallInsert
    \/ CallDelete
    \/ CallCopy
    \/ CallSubtract
    \/ CallSerialize
    \/ CallDeserialize
    \/ CallDecode
    \/ DecodePeel
    \/ DecodeRescan

Spec == Init /\ [][Next]_vars

-----------------------------------------------------------------------------
(* The driver of TestTable_Insert, TestTable_Decode and TestSubtraction:   *)
(* two tables, a set of distinct elements inserted into each; then one is  *)
(* decoded as it is, or one is subtracted from the other and the receiver  *)
(* is decoded                                                              *)

Building == last.op \in {"none", "Insert"}

DiffInsert == \E s \in Slots, d \in Elems : Building /\ net[s][d] = 0 /\ Insert(s, d)

DiffSubtract == \E s, a \in Slots : Building /\ Subtract(s, a)

DiffDecode ==
    \E s \in Slots : (Building \/ (last.op = "Subtract" /\ last.tbl = s)) /\ DecodeBegin(s)

NextDiff == DiffInsert \/ DiffSubtract \/ DiffDecode \/ DecodePeel \/ DecodeRescan

SpecDiff == Init /\ [][NextDiff]_vars

-----------------------------------------------------------------------------
(* The driver of Subtract between tables of any shape: each table is built *)
(* with one of a few shapes, changed by Inserts and Deletes and subtracted *)
(* from the other                                                          *)

\* The default shape and shapes that differ from it in one parameter.
Shapes ==
    {DefaultShape,
     [DefaultShape EXCEPT !.BktNum = 4],
     [DefaultShape EXCEPT !.DataLen = 2],
     [DefaultShape EXCEPT !.HashLen = 2],
     [DefaultShape EXCEPT !.HashNum = 1]}

\* The tables a driver variable can start with: NewTable of a shape, or a
\* NewTable of six cells whose exported BktNum was then set to 5.
ShapeTables(s) ==
    {Shape(sh, s) : sh \in Shapes}
        \cup {[Shape([DefaultShape EXCEPT !.BktNum = 6], s) EXCEPT !.BktNum = 5]}

InitShape ==
    /\ tables \in {f \in [Slots -> UNION {ShapeTables(s) : s \in Slots}] :
                      \A s \in Slots : f[s] \in ShapeTables(s)}
    /\ heap = [a \in Addrs |-> Free]
    /\ dec = IdleDec
    /\ wire = [set |-> FALSE, bytes |-> << >>, net |-> ZeroNet]
    /\ last = NoCall
    /\ net = [s \in Slots |-> ZeroNet]
    /\ ops = 0

ShapeInsert == \E s \in Slots, d \in Elems : ops < MaxOps /\ Insert(s, d)

ShapeDelete == \E s \in Slots, d \in Elems : ops < MaxOps /\ Delete(s, d)

ShapeSubtract == \E s, a \in Slots : ops < MaxOps /\ Subtract(s, a)

NextShape == ShapeInsert \/ ShapeDelete \/ ShapeSubtract

SpecShape == InitShape /\ [][NextShape]_vars

-----------------------------------------------------------------------------
(* The driver of TestSerDe with a lossy channel: a table is filled,        *)
(* serialized, and Deserialize is given the bytes or a prefix of them that *)
(* still holds the header                                                  *)

HeaderLen == 8

WireInsert == \E s \in Slots, d \in Elems : ops < MaxOps /\ Insert(s, d)

WireSerialize == \E s \in Slots : ops < MaxOps /\ DoSerialize(s)

WireDeserialize ==
    \E c \in Slots, n \in HeaderLen..Len(wire.bytes) :
        ops < MaxOps /\ wire.set /\ DeserializeBytes(c, SubSeq(wire.bytes, 1, n))

NextWire == WireInsert \/ WireSerialize \/ WireDeserialize

SpecWire == Init /\ [][NextWire]_vars

-----------------------------------------------------------------------------
(* The auto-sized constructor and the driver of TestNewTableFromNumItems   *)

DEFAULT_DATA_BYTES == 6

DEFAULT_HASH_BYTES == 3

\* A float64 is its 53-bit significand, least significant bit first, and the
\* power of two it is scaled by.  1.36 is 0x15C28F5C28F5C3 * 2^-52, a little
\* more than 1.36; 1.5 is exact.
Float136 ==
    [mant |-> <<1, 1, 0, 0, 0, 0, 1, 1, 1, 0, 1, 0, 1, 1, 1, 1, 0, 0, 0, 1,
               0, 1, 0, 0, 0, 0, 1, 1, 1, 0, 1, 0, 1, 1, 1, 1, 0, 0, 0, 1,
               0, 1, 0, 0, 0, 0, 1, 1, 1, 0, 1, 0, 1>>,
     exp |-> -52]

Float150 ==
    [mant |-> <<0, 0, 0, 0, 0, 0, 0, 0, 0, 0, 0, 0, 0, 0, 0, 0, 0, 0, 0, 0,
               0, 0, 0, 0, 0, 0, 0, 0, 0, 0, 0, 0, 0, 0, 0, 0, 0, 0, 0, 0,
               0, 0, 0, 0, 0, 0, 0, 0, 0, 0, 0, 1, 1>>,
     exp |-> -52]

\* What GetIbltParams can return.  ibltParamMap is not part of the sources:
\* the lookup is a choice between the default {k = 4, overhead 1.36} that
\* GetIbltParams gives for an unknown count and one other entry.
IbltParams ==
    {[NumHashFuncs |-> 4, ItemOverhead |-> Float136],
     [NumHashFuncs |-> 3, ItemOverhead |-> Float150]}

RECURSIVE BitsOf(_)
\* The bits of a natural number, least significant first.
BitsOf(c) == IF c = 0 THEN << >> ELSE <<c % 2>> \o BitsOf(c \div 2)

RECURSIVE ValOf(_)
ValOf(b) == IF b = << >> THEN 0 ELSE Head(b) + 2 * ValOf(Tail(b))

RECURSIVE TrimBits(_)
\* Without the leading zeros.
TrimBits(b) ==
    IF b = << >> \/ b[Len(b)] = 1 THEN b ELSE TrimBits(SubSeq(b, 1, Len(b) - 1))

RECURSIVE IncBits(_)
IncBits(b) ==
    IF b = << >> THEN <<1>>
    ELSE IF Head(b) = 0 THEN <<1>> \o Tail(b)
    ELSE <<0>> \o IncBits(Tail(b))

RECURSIVE MulBits(_, _, _, _)
\* The bits of n times the number m is the bits of, from bit i of m upwards.
MulBits(n, m, i, carry) ==
    IF i > Len(m) THEN BitsOf(carry)
    ELSE LET tot == carry + n * m[i]
         IN  <<tot % 2>> \o MulBits(n, m, i + 1, tot \div 2)

\* float64(n) * f: the exact product rounded to 53 bits, ties to even.
FloatMulUint(n, f) ==
    LET P == TrimBits(MulBits(n, f.mant, 1, 0))
        s == Len(P) - 53
    IN  IF s <= 0 THEN [mant |-> P, exp |-> f.exp]
        ELSE LET q == SubSeq(P, s + 1, Len(P))
                 sticky == \E i \in 1..(s - 1) : P[i] = 1
                 up == P[s] = 1 /\ (sticky \/ q[1] = 1)
             IN  [mant |-> IF up THEN IncBits(q) ELSE q, exp |-> f.exp + s]

\* uint(math.Ceil(f)) for an f below 2^31.
FloatCeil(f) ==
    LET frac == -f.exp
    IN  ValOf(SubSeq(f.mant, frac + 1, Len(f.mant)))
          + (IF \E i \in 1..frac : i <= Len(f.mant) /\ f.mant[i] = 1 THEN 1 ELSE 0)

RECURSIVE CellLoop(_, _)
\* The loop of GetCellCount: numCells goes up while k * numCells / k is not
\* numCells.
CellLoop(k, numCells) ==
    IF (k * numCells) \div k # numCells THEN CellLoop(k, numCells + 1) ELSE numCells

\* GetCellCount(numItems) for the parameters p.  With NumHashFuncs = 0 the
\* condition of the loop divides by zero and the call panics.
GetCellCount(numItems, p) ==
    IF p.NumHashFuncs = 0 THEN [panic |-> TRUE, cells |-> 0]
    ELSE [panic |-> FALSE,
          cells |-> CellLoop(p.NumHashFuncs,
                             FloatCeil(FloatMulUint(numItems, p.ItemOverhead)))]

\* New(numItems) for the parameters p, held by driver variable s.
New(numItems, p, s) ==
    LET c == GetCellCount(numItems, p)
    IN  [panic |-> c.panic,
         tbl |-> [NewTable(c.cells, DEFAULT_DATA_BYTES, DEFAULT_HASH_BYTES,
                           p.NumHashFuncs) EXCEPT !.at = s]]

\* The item counts New is called with.
NewCounts == {3, 4, 5}

\* The 8-byte elements of the test.
Elems8 == {<<1, 2, 3, 4, 5, 6, 7, 8>>, <<8, 7, 6, 5, 4, 3, 2, 1>>}

InitNew ==
    /\ \E n \in NewCounts, p \in IbltParams : tables = [s \in Slots |-> New(n, p, s).tbl]
    /\ heap = [a \in Addrs |-> Free]
    /\ dec = IdleDec
    /\ wire = [set |-> FALSE, bytes |-> << >>, net |-> ZeroNet]
    /\ last = NoCall
    /\ net = [s \in Slots |-> ZeroNet]
    /\ ops = 0

NewInsert == \E s \in Slots, d \in Elems8 : ops < MaxOps /\ Insert(s, d)

NewDecode == \E s \in Slots : ops < MaxOps /\ DecodeBegin(s)

NextNew == NewInsert \/ NewDecode

SpecNew == InitNew /\ [][NextNew]_vars

-----------------------------------------------------------------------------
(* The driver of TestSerDe: table1 is filled by Inserts, serialized, the   *)
(* bytes are deserialized into table2, table2 is subtracted from table1    *)
(* and table1 is decoded                                                   *)

\* How often the driver inserts one element.
MaxCopies == 2

SerDeInsert == \E d \in Elems : Building /\ net[1][d] < MaxCopies /\ Insert(1, d)

SerDeSerialize == Building /\ DoSerialize(1)

SerDeDeserialize == last.op = "Serialize" /\ DoDeserialize(2)

SerDeSubtract == last.op = "Deserialize" /\ Subtract(1, 2)

SerDeDecode == last.op = "Subtract" /\ DecodeBegin(1)

NextSerDe == SerDeInsert \/ SerDeSerialize \/ SerDeDeserialize \/ SerDeSubtract \/ SerDeDecode

SpecSerDe == Init /\ [][NextSerDe]_vars

-----------------------------------------------------------------------------
(* The driver of Decode on any content: table1 gets Inserts and Deletes in *)
(* any order, each element up to MaxCopies times inserted or up to         *)
(* MaxCopies times deleted, and is decoded.  Decode runs to its return:    *)
(* nothing else runs in between, so its steps are taken whenever they can  *)
(* be.                                                                     *)

Mixing == last.op \in {"none", "Insert", "Delete"}

MixInsert ==
    \E d \in Elems : Mixing /\ net[1][d] >= 0 /\ net[1][d] < MaxCopies /\ Insert(1, d)

MixDelete ==
    \E d \in Elems : Mixing /\ net[1][d] <= 0 /\ net[1][d] > -MaxCopies /\ Delete(1, d)

MixDecode == Mixing /\ DecodeBegin(1)

NextMix == MixInsert \/ MixDelete \/ MixDecode \/ DecodePeel \/ DecodeRescan

\* Weak fairness of the two steps of Decode, WF_vars(DecodePeel) and
\* WF_vars(DecodeRescan), with ENABLED <<DecodePeel>>_vars and ENABLED
\* <<DecodeRescan>>_vars written as the state predicates they are equal to:
\* the guards of the two actions, every step of which changes dec.
PeelEnabled == dec.pc = "peel" /\ dec.peels < MaxPeels

RescanEnabled == dec.pc = "rescan"

FairPeel == []<>(~PeelEnabled) \/ []<><<DecodePeel>>_vars

FairRescan == []<>(~RescanEnabled) \/ []<><<DecodeRescan>>_vars

SpecMix == Init /\ [][NextMix]_vars /\ FairPeel /\ FairRescan

-----------------------------------------------------------------------------
(* Reading the state                                                       *)

\* The elements of a byteSet.
SetOf(q) == {q[i] : i \in 1..Len(q)}

\* What a cell holds: its three fields, the hashSum read through the heap.
CellOf(tabs, h, s, i) ==
    LET b == tabs[s].buckets[i]
    IN  IF b.present
        THEN [present |-> TRUE, dataSum |-> b.dataSum, hashSum |-> h[b.hashSum],
              count |-> b.count]
        ELSE [present |-> FALSE, dataSum |-> << >>, hashSum |-> << >>, count |-> 0]

CellsOf(tabs, h, s) == [i \in DOMAIN tabs[s].buckets |-> CellOf(tabs, h, s, i)]

\* The sums of a cell, an absent cell read as a cell of zeros.
SumsOf(t, h, i) ==
    LET b == t.buckets[i]
    IN  IF b.present THEN <<b.dataSum, h[b.hashSum], b.count>>
        ELSE <<Zeros(t.DataLen), Zeros(t.HashLen), 0>>

\* The cells an element of the right length is hashed to.
CellsFor(e) == IndexLoop(Shape(DefaultShape, 1), e, 1, {})

-----------------------------------------------------------------------------
(* The driver of the wire format with large counts: table1 holds one       *)
(* element inserted (or deleted) many times                                *)

\* Net numbers of Inserts of the element, around the limits of 8 and 16 bits.
Counts == {-32768, -32767, -257, -256, -255, -2, -1, 1, 2, 255, 256, 32767}

\* The cell of a table after c Inserts (for c < 0, -c Deletes) of x: the
\* xors of an even number of calls cancel.
RepeatedBucket(x, c, addr) ==
    [present |-> TRUE, dataSum |-> IF c % 2 = 1 THEN x ELSE Zeros(Len(x)),
     hashSum |-> addr, count |-> c]

\* NewTable of the default shape after c Inserts of x, held by variable s.
Repeated(x, c, s) ==
    LET t == Shape(DefaultShape, s)
    IN  [t EXCEPT !.buckets = [i \in DOMAIN t.buckets |->
                                  IF i \in CellsFor(x)
                                  THEN RepeatedBucket(x, c, Home(s, i))
                                  ELSE NilBucket],
                  !.bitsSet = CellsFor(x)]

InitCount ==
    \E x \in Elems, c \in Counts :
        /\ tables = [s \in Slots |-> IF s = 1 THEN Repeated(x, c, 1)
                                      ELSE Shape(DefaultShape, s)]
        /\ heap = [a \in Addrs |->
                      IF \E i \in CellsFor(x) : a = Home(1, i)
                      THEN IF c % 2 = 1
                           THEN SubSeq(sipHash(x), 1, DefaultShape.HashLen)
                           ELSE Zeros(DefaultShape.HashLen)
                      ELSE Free]
        /\ dec = IdleDec
        /\ wire = [set |-> FALSE, bytes |-> << >>, net |-> ZeroNet]
        /\ last = NoCall
        /\ net = [s \in Slots |-> IF s = 1 THEN [ZeroNet EXCEPT ![x] = c] ELSE ZeroNet]
        /\ ops = 0

\* The element the table holds is inserted or deleted once more.
CountInsert == \E d \in Elems : ops < MaxOps /\ net[1][d] # 0 /\ Insert(1, d)

CountDelete == \E d \in Elems : ops < MaxOps /\ net[1][d] # 0 /\ Delete(1, d)

CountSerialize == ops < MaxOps /\ DoSerialize(1)

CountDeserialize == ops < MaxOps /\ wire.set /\ DoDeserialize(2)

NextCount == CountInsert \/ CountDelete \/ CountSerialize \/ CountDeserialize

SpecCount == InitCount /\ [][NextCount]_vars

RECURSIVE Peelable(_)
\* A set of elements is within the peeling capacity of the table when some
\* element has a cell to itself and the rest is within capacity again.
Peelable(S) ==
    \/ S = {}
    \/ \E e \in S :
          /\ \E i \in CellsFor(e) : \A f \in S \ {e} : i \notin CellsFor(f)
          /\ Peelable(S \ {e})

\* The elements Decode's table held once, and those it held minus once.
HeldPlus == {e \in Universe : dec.src[e] = 1}

HeldMinus == {e \in Universe : dec.src[e] = -1}

-----------------------------------------------------------------------------
(* Claims                                                                  *)

\* C1: Decode of a table built by inserting a set S of distinct elements that
\* is within the peeling capacity returns no error, alpha = S and beta empty,
\* and leaves every cell of the table empty.
C1_PeelingCorrect ==
    (dec.pc = "done" /\ dec.after \in {"none", "Insert"} /\ Peelable(HeldPlus))
        => /\ dec.err = "nil"
           /\ SetOf(dec.alpha) = HeldPlus
           /\ Len(dec.alpha) = Cardinality(HeldPlus)
           /\ dec.beta = << >>
           /\ TableEmpty(tables[dec.tbl], heap)

C1_Witness ==
    /\ dec.pc = "done" /\ dec.after = "Insert"
    /\ Cardinality(HeldPlus) = 3 /\ Peelable(HeldPlus)
    /\ Len(dec.alpha) = 3

\* C2: after A.Subtract(B) for tables of sets SA and SB, a Decode of A that
\* returns no error yields alpha = SA \ SB and beta = SB \ SA; with the roles
\* of the tables exchanged the two sets are exchanged.
C2_SubtractDecode ==
    (dec.pc = "done" /\ dec.after = "Subtract" /\ dec.err = "nil")
        => /\ SetOf(dec.alpha) = HeldPlus
           /\ SetOf(dec.beta) = HeldMinus

\* C3: a Decode that cannot peel the table to empty returns an error: when
\* Decode returns no error, every cell of the table is empty.
C3_FailureReported ==
    dec.pc = "done" => (dec.err # "nil" \/ TableEmpty(tables[dec.tbl], heap))

RECURSIVE ApplySigns(_, _, _, _)
\* The calls signs[1], signs[2], ... on one table with one element, TRUE for
\* Insert and FALSE for Delete.
ApplySigns(t, h, e, signs) ==
    IF signs = << >> THEN [err |-> "nil", tbl |-> t, heap |-> h]
    ELSE LET r == TableOperate(t, h, e, Head(signs))
         IN  IF r.err # "nil" THEN r ELSE ApplySigns(r.tbl, r.heap, e, Tail(signs))

\* Sequences of as many Inserts as Deletes.
BalancedSigns ==
    {<<TRUE, FALSE>>, <<FALSE, TRUE>>, <<TRUE, TRUE, FALSE, FALSE>>,
     <<FALSE, TRUE, TRUE, FALSE>>}

\* What Decode returns and the sums it leaves.
DecodeResult(t, h) ==
    LET r == TableDecode(t, h)
    IN  [alpha |-> r.dec.alpha, beta |-> r.dec.beta, err |-> r.dec.err,
         sums |-> [i \in DOMAIN t.buckets |-> SumsOf(r.tbl, r.heap, i)]]

\* C4: Insert(e) followed by Delete(e) leaves every cell with the dataSum,
\* hashSum and count it had before, and so does any balanced sequence of
\* Inserts and Deletes of e; the table then serializes to the same bytes and
\* decodes to the same result as before.
C4_InsertDeleteInverse ==
    \A s \in Slots :
        LET bytes == Serialize(tables[s], heap)
            result == DecodeResult(tables[s], heap)
        IN  \A e \in Elems :
               /\ \A signs \in BalancedSigns :
                     LET r == ApplySigns(tables[s], heap, e, signs)
                     IN  /\ r.err = "nil"
                         /\ \A i \in DOMAIN tables[s].buckets :
                               SumsOf(r.tbl, r.heap, i) = SumsOf(tables[s], heap, i)
                         /\ \A a \in Addrs : heap[a] # Free => r.heap[a] = heap[a]
               /\ LET r == ApplySigns(tables[s], heap, e, <<TRUE, FALSE>>)
                  IN  /\ Serialize(r.tbl, r.heap) = bytes
                      /\ DecodeResult(r.tbl, r.heap) = result

C4_Witness ==
    /\ last.op = "Delete" /\ last.err = "nil"
    /\ net[last.tbl][last.elem] = 0
    /\ \E i \in CellsFor(last.elem) :
          /\ tables[last.tbl].buckets[i].present
          /\ BucketEmpty(tables[last.tbl].buckets[i], heap)
    /\ \E f \in Elems : net[last.tbl][f] = 1

\* C5: Deserialize(Serialize(T)) has the parameters of T and is equal to T
\* cell by cell: an absent cell stays absent, a present cell stays present
\* with the same dataSum, hashSum and count, also when all of them are zero.
C5_RoundTrip ==
    \A s \in Slots :
        LET r == Deserialize(Serialize(tables[s], heap), [a \in Addrs |-> Free], s)
        IN  /\ ~r.panic
            /\ r.tbl.BktNum = tables[s].BktNum /\ r.tbl.DataLen = tables[s].DataLen
            /\ r.tbl.HashLen = tables[s].HashLen /\ r.tbl.HashNum = tables[s].HashNum
            /\ \A i \in DOMAIN tables[s].buckets :
                  CellOf([x \in {s} |-> r.tbl], r.heap, s, i) = CellOf(tables, heap, s, i)

\* C6: a table and its copy share no state: an Insert, a Delete or a Decode
\* on one of them changes no cell of the other.
C6_CopyIndependent ==
    [][last'.op \in {"Insert", "Delete", "Decode"}
          => \A s \in Slots \ {last'.tbl} :
                CellsOf(tables', heap', s) = CellsOf(tables, heap, s)]_vars

\* C7: A.Subtract(B) leaves B unchanged: its parameters and every one of its
\* cells.
C7_SubtractOperandUnchanged ==
    [][(last'.op = "Subtract" /\ ops' = ops + 1)
          => /\ CellsOf(tables', heap', last'.other) = CellsOf(tables, heap, last'.other)
             /\ tables'[last'.other].BktNum = tables[last'.other].BktNum
             /\ tables'[last'.other].DataLen = tables[last'.other].DataLen
             /\ tables'[last'.other].HashLen = tables[last'.other].HashLen
             /\ tables'[last'.other].HashNum = tables[last'.other].HashNum]_vars

\* C8: when diff.encode finds the bucket's data already in the opposite set,
\* Decode reports it: it does not return the nil error of a clean decode.
C8_RepetitiveSurfaced ==
    (dec.pc = "done" /\ dec.encodeErr # "nil") => dec.err # "nil"

\* C9: when diff.encode finds the bucket's data already in the opposite set,
\* Decode goes on: it peels that bucket and every pure cell left or exposed
\* later, and returns only when a rescan finds no pure cell.
C9_RepetitiveContinues ==
    (dec.pc = "done" /\ dec.encodeErr # "nil")
        => /\ dec.pure = << >>
           /\ EnqueuePure(tables[dec.tbl], heap, << >>).pure = << >>

\* C10: Insert and Delete of an element whose length is not DataLen return
\* the length-mismatch error and change nothing in the table; with an element
\* of DataLen bytes they return no error.
C10_LengthChecked ==
    [][(ops' = ops + 1 /\ last'.op \in {"Insert", "Delete"})
          => IF Len(last'.elem) # tables[last'.tbl].DataLen
             THEN /\ last'.err = "insert byte length mismatches base data length"
                  /\ tables' = tables
                  /\ heap' = heap
             ELSE last'.err = "nil"]_vars

C10_Witness ==
    /\ last.op \in {"Insert", "Delete"}
    /\ Len(last.elem) # tables[last.tbl].DataLen
    /\ last.err = "insert byte length mismatches base data length"
    /\ \E i \in DOMAIN tables[last.tbl].buckets : tables[last.tbl].buckets[i].present

\* The parameters and the bucket-array length Table.check compares.
ShapeOf(t) == <<t.BktNum, t.DataLen, t.HashLen, t.HashNum, Cardinality(DOMAIN t.buckets)>>

\* C11: t.Subtract(u) returns an error whenever t and u differ in B, D, H, k
\* or in the length of the bucket array, and then no cell of t is changed;
\* when all of them agree it returns no error.
C11_ShapeChecked ==
    [][(last'.op = "Subtract" /\ ops' = ops + 1)
          => IF ShapeOf(tables[last'.tbl]) # ShapeOf(tables[last'.other])
             THEN /\ last'.err # "nil"
                  /\ CellsOf(tables', heap', last'.tbl) = CellsOf(tables, heap, last'.tbl)
             ELSE last'.err = "nil"]_vars

C11_Witness ==
    /\ last.op = "Subtract" /\ last.err # "nil"
    /\ tables[last.tbl].HashNum # tables[last.other].HashNum
    /\ \E i \in DOMAIN tables[last.tbl].buckets : tables[last.tbl].buckets[i].present
    /\ \E i \in DOMAIN tables[last.other].buckets : tables[last.other].buckets[i].present

\* The length of one cell record of a serialized table with header b.
RecordLen(b) == 2 + 2 + Uint16(SubSeq(b, 3, 4)) + Uint16(SubSeq(b, 5, 6))

\* The bytes after the header end in a partial cell record.
Truncated(b) == Len(b) >= HeaderLen /\ (Len(b) - HeaderLen) % RecordLen(b) # 0

\* C12: Deserialize of a buffer whose bytes after the 8-byte header are not
\* a whole number of cell records returns a decode error: it neither returns
\* a table with a nil error nor panics.
C12_TruncatedRejected ==
    (last.op = "Deserialize" /\ Truncated(last.elem)) => last.err \notin {"nil", "panic"}

\* C13: a table created by New(n) accepts Insert of 8-byte elements without
\* error, and a Decode after such Inserts yields the inserted elements in
\* alpha.
C13_NewAcceptsEightBytes ==
    /\ (last.op = "Insert" /\ Len(last.elem) = 8) => last.err = "nil"
    /\ (dec.pc = "done" /\ dec.after = "Insert") => dec.alpha # << >>

\* C14: for a table T built by Inserts and T2 = Deserialize(T.Serialize()),
\* T.Subtract(T2) leaves every cell of T empty, and Decode of T then returns
\* at once, with no error and with alpha and beta empty.
C14_SubtractEqualCancels ==
    /\ last.op = "Subtract"
          => /\ last.err = "nil"
             /\ TableEmpty(tables[last.tbl], heap)
             /\ \A i \in DOMAIN tables[last.tbl].buckets :
                   SumsOf(tables[last.tbl], heap, i) = <<Zeros(1), Zeros(1), 0>>
    /\ last.op = "Decode"
          => /\ dec.pc = "done" /\ dec.err = "nil"
             /\ dec.alpha = << >> /\ dec.beta = << >>

C14_Witness ==
    /\ last.op = "Decode" /\ dec.pc = "done" /\ dec.after = "Subtract"
    /\ Cardinality({e \in Elems : wire.net[e] >= 1}) >= 3
    /\ \E e \in Elems : wire.net[e] = 2

\* A count as 16 bits in two's complement, most significant byte first.
TwosComplement(c) ==
    LET u == IF c >= 0 THEN c ELSE 65536 + c IN <<u \div 256, u % 256>>

\* The cell records of serialized bytes b whose first record starts at byte n.
RecordStarts(b) ==
    {n \in (HeaderLen + 1)..Len(b) : (n - HeaderLen - 1) % RecordLen(b) = 0}

\* C15: Serialize writes the count of a cell as a 16-bit big-endian two's
\* complement value and Deserialize reads it back as signed: for every cell
\* with -32768 <= count <= 32767 the deserialized count is the same.
C15_SignedCounts ==
    \A s \in Slots :
        LET b == Serialize(tables[s], heap)
            r == Deserialize(b, [a \in Addrs |-> Free], s)
        IN  /\ ~r.panic
            /\ \A n \in RecordStarts(b) :
                  LET c == tables[s].buckets[Uint16(SubSeq(b, n, n + 1))].count
                  IN  (-32768 <= c /\ c <= 32767)
                          => SubSeq(b, n + 2, n + 3) = TwosComplement(c)
            /\ \A i \in DOMAIN tables[s].buckets :
                  LET c == SumsOf(tables[s], heap, i)[3]
                  IN  (-32768 <= c /\ c <= 32767) => SumsOf(r.tbl, r.heap, i)[3] = c

C15_Witness ==
    /\ last.op = "Deserialize"
    /\ \E i \in DOMAIN tables[2].buckets :
          tables[2].buckets[i].present /\ tables[2].buckets[i].count = -32768
    /\ \E n \in RecordStarts(wire.bytes) : SubSeq(wire.bytes, n + 2, n + 3) = <<128, 0>>

\* C16: Decode terminates: on every table reached by Inserts and Deletes the
\* peel and rescan loops end after finitely many peels and Decode returns.
C16_DecodeTerminates ==
    /\ [](dec.peels < MaxPeels)
    /\ (dec.pc \in {"peel", "rescan"}) ~> (dec.pc = "done")

C16_Witness ==
    /\ dec.pc = "done" /\ dec.peels >= 4
    /\ \E e \in Elems : dec.src[e] < 0
    /\ \E e \in Elems : dec.src[e] > 1

\* C17: after every diff.encode made during Decode, alpha and beta have no
\* element in common and neither holds an element twice.
C17_DiffDisjoint ==
    /\ SetOf(dec.alpha) \cap SetOf(dec.beta) = {}
    /\ Cardinality(SetOf(dec.alpha)) = Len(dec.alpha)
    /\ Cardinality(SetOf(dec.beta)) = Len(dec.beta)

C17_Witness ==
    /\ dec.encodeErr # "nil"
    /\ Len(dec.alpha) >= 1 /\ Len(dec.beta) >= 1

\* C18: Insert(x) (Delete(x)) of an element of DataLen bytes picks exactly k
\* distinct cells in [0, B); in each of them it xors x into dataSum and the
\* first H bytes of the digest of x into hashSum and adds 1 (-1) to count,
\* creating the cell if it was absent; all other cells and B, D, H, k stay
\* as they are.  A Delete of an element never inserted is legal and makes
\* the counts negative.
C18_ExactlyKCells ==
    [][(ops' = ops + 1 /\ last'.op \in {"Insert", "Delete"} /\ last'.err = "nil")
          => LET s == last'.tbl
                 x == last'.elem
                 t == tables[s]
                 K == tables'[s].bitsSet
                 step == IF last'.op = "Insert" THEN 1 ELSE -1
             IN  /\ Cardinality(K) = t.HashNum
                 /\ K \subseteq 0..(t.BktNum - 1)
                 /\ ShapeOf(tables'[s]) = ShapeOf(t)
                 /\ \A i \in DOMAIN t.buckets :
                       IF i \in K
                       THEN /\ tables'[s].buckets[i].present
                            /\ SumsOf(tables'[s], heap', i) =
                                  <<xor(SumsOf(t, heap, i)[1], x),
                                    xor(SumsOf(t, heap, i)[2],
                                        SubSeq(sipHash(x), 1, t.HashLen)),
                                    SumsOf(t, heap, i)[3] + step>>
                       ELSE CellOf(tables', heap', s, i) = CellOf(tables, heap, s, i)]_vars

C18_Witness ==
    /\ last.op = "Delete" /\ last.err = "nil"
    /\ tables[last.tbl].HashLen = 2
    /\ \E i \in DOMAIN tables[last.tbl].buckets :
          tables[last.tbl].buckets[i].present /\ tables[last.tbl].buckets[i].count = -2
    /\ \E i \in DOMAIN tables[last.tbl].buckets : ~tables[last.tbl].buckets[i].present

\* C19: after a successful t.Subtract(u), for every index i: if both cells
\* were present, t[i] holds the xor of the two dataSums and of the two
\* hashSums and the count old t[i].count - u[i].count; if only u[i] was
\* present, t[i] is a new cell with u[i]'s sums and the count -u[i].count; if
\* only t[i] was present it is unchanged; if both were absent t[i] stays
\* absent.
C19_CellWiseSubtract ==
    [][(ops' = ops + 1 /\ last'.op = "Subtract" /\ last'.err = "nil")
          => LET t == tables[last'.tbl]
                 u == tables[last'.other]
                 r == tables'[last'.tbl]
             IN  \A i \in DOMAIN t.buckets :
                   LET tb == SumsOf(t, heap, i)
                       ub == SumsOf(u, heap, i)
                   IN  IF t.buckets[i].present /\ u.buckets[i].present
                       THEN /\ r.buckets[i].present
                            /\ SumsOf(r, heap', i) =
                                  <<xor(tb[1], ub[1]), xor(tb[2], ub[2]), tb[3] - ub[3]>>
                       ELSE IF u.buckets[i].present
                       THEN /\ r.buckets[i].present
                            /\ SumsOf(r, heap', i) = <<ub[1], ub[2], -ub[3]>>
                       ELSE IF t.buckets[i].present
                       THEN /\ r.buckets[i].present
                            /\ SumsOf(r, heap', i) = tb
                       ELSE ~r.buckets[i].present]_vars

\* A Subtract of another table has met all four cases: a cell made from the
\* operand's alone, a cell of both, a cell of t alone and a cell of neither.
C19_Witness ==
    /\ last.op = "Subtract" /\ last.err = "nil" /\ last.tbl # last.other
    /\ LET r == tables[last.tbl]
           u == tables[last.other]
       IN  /\ \E i \in DOMAIN r.buckets :
                 /\ r.buckets[i].present /\ u.buckets[i].present
                 /\ r.buckets[i].hashSum = u.buckets[i].hashSum
                 /\ r.buckets[i].count = -u.buckets[i].count
                 /\ r.buckets[i].count < 0
           /\ \E i \in DOMAIN r.buckets :
                 /\ r.buckets[i].present /\ u.buckets[i].present
                 /\ r.buckets[i].hashSum # u.buckets[i].hashSum
                 /\ r.buckets[i].count = 0
                 /\ r.buckets[i].dataSum # Zeros(r.DataLen)
           /\ \E i \in DOMAIN r.buckets :
                 r.buckets[i].present /\ ~u.buckets[i].present
           /\ \E i \in DOMAIN r.buckets :
                 ~r.buckets[i].present /\ ~u.buckets[i].present

(***************************************************************************)
(* The measure of the peeling loop: the sum of |count| over the cells      *)
(***************************************************************************)
Abs(n) == IF n < 0 THEN -n ELSE n

CountOf(t, i) == IF t.buckets[i].present THEN t.buckets[i].count ELSE 0

RECURSIVE SumAbsFrom(_, _)
SumAbsFrom(t, i) ==
    IF i >= Cardinality(DOMAIN t.buckets) THEN 0
    ELSE Abs(CountOf(t, i)) + SumAbsFrom(t, i + 1)

SumAbs(t) == SumAbsFrom(t, 0)

\* A step of the inner loop that recorded the bucket and ran t.operate.
PeelApplied ==
    /\ dec.pc = "peel" /\ dec'.peels = dec.peels + 1
    /\ dec'.encodeErr = "nil"
    /\ ~(dec'.pc = "done" /\ dec'.err # "nil")

\* C20 as stated: each peel performed by Decode reduces the sum over all
\* cells of |count| by 2k.
C20_PeelReducesBy2k ==
    [][PeelApplied =>
          SumAbs(tables'[dec.tbl]) = SumAbs(tables[dec.tbl]) - 2 * tables[dec.tbl].HashNum]_vars

\* C20, amended: each peel performed by Decode moves the count of each of the
\* k cells of the peeled dataSum by one, against the sign of the peeled
\* bucket's count, and leaves the other counts alone.  The sum of |count|
\* therefore changes by at most k; it drops by exactly k when each of the k
\* cells held a count of the peeled bucket's sign, and it never drops by 2k.
C20_PeelMovesKCounts ==
    [][PeelApplied =>
          LET t == tables[dec.tbl]
              r == tables'[dec.tbl]
              bkt == t.buckets[Head(dec.pure)]
              K == TableIndex(t, bkt.dataSum).bits
              step == IF bkt.count < 0 THEN 1 ELSE -1
          IN  /\ Cardinality(K) = t.HashNum
              /\ \A i \in DOMAIN t.buckets :
                    CountOf(r, i) = CountOf(t, i) + (IF i \in K THEN step ELSE 0)
              /\ SumAbs(r) >= SumAbs(t) - t.HashNum
              /\ SumAbs(r) <= SumAbs(t) + t.HashNum
              /\ (\A i \in K : CountOf(t, i) * step < 0)
                    => SumAbs(r) = SumAbs(t) - t.HashNum]_vars

\* A Decode has peeled three elements of both signs down to counts of zero.
C20_Witness ==
    /\ dec.pc = "done" /\ dec.err = "nil" /\ dec.encodeErr = "nil"
    /\ dec.peels >= 3
    /\ Len(dec.alpha) >= 1 /\ Len(dec.beta) >= 1
    /\ SumAbs(tables[dec.tbl]) = 0

(***************************************************************************)
(* A table of four cells and three hashes, where some xor of elements      *)
(* passes the pure test in a cell that is not one of its own: changed by   *)
(* Inserts and Deletes and then decoded                                    *)
(***************************************************************************)
ScanShape == [DefaultShape EXCEPT !.BktNum = 4, !.HashNum = 3]

InitScan ==
    /\ tables = [s \in Slots |-> Shape(ScanShape, s)]
    /\ heap = [a \in Addrs |-> Free]
    /\ dec = IdleDec
    /\ wire = [set |-> FALSE, bytes |-> << >>, net |-> ZeroNet]
    /\ last = NoCall
    /\ net = [s \in Slots |-> ZeroNet]
    /\ ops = 0

SpecScan == InitScan /\ [][NextMix]_vars

(***************************************************************************)
(* The scan for pures                                                      *)
(***************************************************************************)
\* A step that scans: the first scan of a Decode or a rescan.  Its queue is
\* dec'.pure, empty when Decode returns for want of a pure cell.
Scanned ==
    \/ ops' = ops + 1 /\ last'.op = "Decode"
    \/ dec.pc = "rescan"

\* The k-index set of the dataSum of cell i.
IndexOfCell(t, i) == TableIndex(t, t.buckets[i].dataSum).bits

\* Cell i is pure and among the cells of its own dataSum.
TruePure(t, h, i) ==
    /\ t.buckets[i].present
    /\ BucketPure(t.buckets[i], h)
    /\ i \in IndexOfCell(t, i)

\* Cell i passes the pure test and is not among the cells of its dataSum.
FalsePure(t, h, i) ==
    /\ t.buckets[i].present
    /\ BucketPure(t.buckets[i], h)
    /\ i \notin IndexOfCell(t, i)

\* C21: one scan for pures visits the cells in ascending order and enqueues
\* cell i only if it is pure, i is among the k cells of its own dataSum, and
\* i is among the cells of no element enqueued earlier in the scan; every
\* cell that meets the three conditions is enqueued; no element is enqueued
\* twice in one scan.
C21_ScanPolicy ==
    [][Scanned =>
          LET t == tables'[dec'.tbl]
              Q == dec'.pure
              Before(i) == {Q[b] : b \in {c \in 1..Len(Q) : Q[c] < i}}
              Masked(i) == \E j \in Before(i) : i \in IndexOfCell(t, j)
          IN  /\ \A a, b \in 1..Len(Q) : a < b => Q[a] < Q[b]
              /\ \A i \in DOMAIN t.buckets :
                    (i \in SetOf(Q)) <=> (TruePure(t, heap', i) /\ ~Masked(i))
              /\ \A a, b \in 1..Len(Q) :
                    a # b => t.buckets[Q[a]].dataSum # t.buckets[Q[b]].dataSum]_vars

\* A first scan has skipped, for being a false pure alone, the one cell that
\* passes the pure test: Decode has returned for want of a pure cell.
C21_Witness ==
    /\ dec.pc = "done" /\ dec.peels = 0
    /\ dec.err = "no pure buckets in table"
    /\ \E i \in DOMAIN tables[dec.tbl].buckets : FalsePure(tables[dec.tbl], heap, i)

\* C22: the queue holds references to live cells, yet every bucket Decode
\* dequeues is still pure and has the dataSum and count it had when it was
\* enqueued: while a batch is peeled every cell in the queue is pure and
\* among the cells of its dataSum, and a peel changes no cell that is still
\* waiting in the queue.
C22_QueuedStayValid ==
    [][dec.pc = "peel" =>
          LET s == dec.tbl
              t == tables[s]
          IN  /\ \A a \in 1..Len(dec.pure) : TruePure(t, heap, dec.pure[a])
              /\ \A j \in SetOf(Tail(dec.pure)) :
                    CellOf(tables', heap', s, j) = CellOf(tables, heap, s, j)
              /\ dec'.pc = "peel" => dec'.pure = Tail(dec.pure)]_vars

\* One bucket of a batch has been peeled and another is waiting whose
\* element shares a cell with the peeled one.
C22_Witness ==
    /\ dec.pc = "peel" /\ dec.peels = 1 /\ dec.encodeErr = "nil"
    /\ Len(dec.pure) >= 1
    /\ LET t == tables[dec.tbl]
       IN  \E e \in SetOf(dec.alpha) \cup SetOf(dec.beta) :
             TableIndex(t, e).bits \cap IndexOfCell(t, Head(dec.pure)) # {}

(***************************************************************************)
(* One new table of one of a few shapes, changed by Inserts and Deletes in *)
(* any order                                                               *)
(***************************************************************************)
\* The calls made on the table.
MaxCalls == 4

RepShapes == {DefaultShape, ScanShape, [DefaultShape EXCEPT !.HashLen = 2]}

InitRep ==
    /\ tables \in {[s \in Slots |-> Shape(sh, s)] : sh \in RepShapes}
    /\ heap = [a \in Addrs |-> Free]
    /\ dec = IdleDec
    /\ wire = [set |-> FALSE, bytes |-> << >>, net |-> ZeroNet]
    /\ last = NoCall
    /\ net = [s \in Slots |-> ZeroNet]
    /\ ops = 0

RepInsert == \E d \in Elems : ops < MaxCalls /\ Insert(1, d)

RepDelete == \E d \in Elems : ops < MaxCalls /\ Delete(1, d)

NextRep == RepInsert \/ RepDelete

SpecRep == InitRep /\ [][NextRep]_vars

\* The elements held by the table (net multiplicity not zero) whose index
\* set contains cell i, and those of them held an odd number of times.
Holders(t, n, i) == {e \in Elems : n[e] # 0 /\ i \in TableIndex(t, e).bits}

OddHolders(t, n, i) == {e \in Holders(t, n, i) : n[e] % 2 = 1}

RECURSIVE SumNet(_, _)
SumNet(S, n) ==
    IF S = {} THEN 0
    ELSE LET e == CHOOSE x \in S : TRUE IN n[e] + SumNet(S \ {e}, n)

RECURSIVE XorData(_, _)
XorData(S, len) ==
    IF S = {} THEN Zeros(len)
    ELSE LET e == CHOOSE x \in S : TRUE IN xor(XorData(S \ {e}, len), e)

RECURSIVE XorHash(_, _)
XorHash(S, len) ==
    IF S = {} THEN Zeros(len)
    ELSE LET e == CHOOSE x \in S : TRUE
         IN  xor(XorHash(S \ {e}, len), SubSeq(sipHash(e), 1, len))

\* C23: after any sequence of Insert and Delete calls on a new table, every
\* cell i has count = the sum of the net multiplicities of the elements whose
\* index set contains i, dataSum = the xor of those of them with an odd net
\* multiplicity and hashSum = the xor of the H-byte digests of the same
\* elements (an absent cell reads as zeros, and a cell is absent only if no
\* call has touched it); the sums depend on the net multiplicities alone.
C23_Representation ==
    LET t == tables[1]
        n == net[1]
    IN  \A i \in DOMAIN t.buckets :
          /\ SumsOf(t, heap, i) =
                <<XorData(OddHolders(t, n, i), t.DataLen),
                  XorHash(OddHolders(t, n, i), t.HashLen),
                  SumNet(Holders(t, n, i), n)>>
          /\ ~t.buckets[i].present => Holders(t, n, i) = {}

\* Four calls of both kinds have left one element held twice and another,
\* inserted and deleted again, not at all: its cells are present and count
\* what the first holds.
C23_Witness ==
    /\ ops = MaxCalls /\ last.op = "Delete" /\ last.err = "nil"
    /\ net[1][last.elem] = 0
    /\ \E e \in Elems : net[1][e] = 2
    /\ \E i \in DOMAIN tables[1].buckets :
          /\ tables[1].buckets[i].present
          /\ i \in TableIndex(tables[1], last.elem).bits
          /\ tables[1].buckets[i].count = 2
          /\ tables[1].buckets[i].dataSum = Zeros(tables[1].DataLen)

====
